---- MODULE Spec2Model ----
(* Matching & Enrollment core of civic-weave: the enrollment state machine  *)
(* (backend/internal/enrollment, api/enrollment_handlers.go) and the match  *)
(* cache (database/migrations/006_batch_matching.up.sql).                   *)
EXTENDS Integers, Sequences, FiniteSets, Bags, TLC

(***************************************************************************)
(* Bounds                                                                  *)
(***************************************************************************)
NumVolunteers == 1
NumCallers == 2
MaxEnrollments == 2
NumSkills == 2
MaxDimension == 3

Coordinator == 0
Volunteers == 1..NumVolunteers
Users == Volunteers \cup {Coordinator}
Projects == {1}
NoId == -1
Skills == 1..NumSkills
\* SQL NULL in a numeric column, in a vector column and in a name column, and
\* the NaN of float8 and numeric, as values no computation below produces
NULL == -1000000000
NullVector == <<>>
NullName == {}
NaN == 2000000000

VARIABLES
    volunteer_enrollments,  \* table volunteer_enrollments; the row id is its index
    calls,                  \* bag of the UpdateEnrollmentStatus calls between their SELECT and their UPDATE
    lastCall,               \* the request and the response of the last handler that returned
    okLog,                  \* per enrollment id, the actions whose UpdateEnrollmentStatus returned nil
    projects,               \* table projects: status, latitude, longitude, location_name
    users,                  \* the volunteers of table users: latitude, longitude, location_name
    volunteer_skills,       \* per volunteer and skill, the score of the claimed row or NULL
    project_skills,         \* per project and skill, the weight of the row or NULL
    volunteer_skill_vectors,\* materialized view: per volunteer the skill vector, NULL when not in the view
    project_volunteer_matches, \* committed rows of table project_volunteer_matches
    refresh,                \* the transaction of the running refresh_all_matches()
    published,              \* the rows and the result of the last refresh that committed
    lastRead,               \* the request and the response of the last FindMatchingVolunteers
    lastVector,             \* the arguments and the result of the last direct call of a skill vector function
    sessions                \* per database session, its transaction of refresh_all_matches() when two overlap

enrollVars == <<volunteer_enrollments, calls, lastCall, okLog>>
dataVars == <<projects, users, volunteer_skills, project_skills, volunteer_skill_vectors>>
cacheVars == <<project_volunteer_matches, refresh, published, sessions>>
matchVars == <<projects, users, volunteer_skills, project_skills, volunteer_skill_vectors,
               project_volunteer_matches, refresh, published, lastRead, lastVector, sessions>>
vars == <<volunteer_enrollments, calls, lastCall, okLog,
          projects, users, volunteer_skills, project_skills, volunteer_skill_vectors,
          project_volunteer_matches, refresh, published, lastRead, lastVector, sessions>>

(***************************************************************************)
(* Enrollment state machine                                                *)
(***************************************************************************)
Statuses == {"requested", "invited", "enrolled", "tl_rejected", "v_rejected"}
Terminal == {"enrolled", "tl_rejected", "v_rejected"}
CreateActions == {"request", "invite", "cancel"}
UpdateActions == {"accept", "reject", "withdraw", "cancel"}

InitialStatusSwapped(action) ==
    IF action = "request" THEN "invited"
    ELSE IF action = "invite" THEN "requested"
    ELSE "error"

\* CreateEnrollment, service.go:21-28: the initial status of the action
InitialStatus(action) ==
    IF action = "request" THEN "requested"
    ELSE IF action = "invite" THEN "invited"
    ELSE "error"

NewStatusRejectAlwaysTL(currentStatus, action) ==
    IF action = "accept" THEN
        IF currentStatus = "requested" \/ currentStatus = "invited"
        THEN "enrolled" ELSE "cannot"
    ELSE IF action = "reject" THEN
        IF currentStatus = "requested" \/ currentStatus = "invited"
        THEN "tl_rejected" ELSE "cannot"
    ELSE IF action = "withdraw" THEN
        IF currentStatus = "requested" THEN "v_rejected" ELSE "cannot"
    ELSE "invalid action"

\* UpdateEnrollmentStatus, service.go:222-245: the new status, or the error
NewStatus(currentStatus, action) ==
    IF action = "accept" THEN
        IF currentStatus = "requested" \/ currentStatus = "invited"
        THEN "enrolled" ELSE "cannot"
    ELSE IF action = "reject" THEN
        IF currentStatus = "requested" THEN "tl_rejected"
        ELSE IF currentStatus = "invited" THEN "v_rejected"
        ELSE "cannot"
    ELSE IF action = "withdraw" THEN
        IF currentStatus = "requested" THEN "v_rejected" ELSE "cannot"
    ELSE "invalid action"

UniqueViolationOff(table, volunteerID, projectID) == FALSE

\* UNIQUE(volunteer_id, project_id): the INSERT raises a duplicate key error
UniqueViolation(table, volunteerID, projectID) ==
    \E i \in 1..Len(table) :
        table[i].volunteer_id = volunteerID /\ table[i].project_id = projectID

ValidCreateActionAny(action) == TRUE

\* EnrollmentHandler.CreateEnrollment, "Validate action"
ValidCreateAction(action) == action = "request" \/ action = "invite"

ValidUpdateActionAny(action) == TRUE

\* EnrollmentHandler.UpdateEnrollmentStatus, "Validate action"
ValidUpdateAction(action) ==
    ~ (action # "accept" /\ action # "reject" /\ action # "withdraw")

UpdateErrorHidesMissingRow(table, enrollmentID, action) ==
    IF enrollmentID \notin 1..Len(table)
    THEN [result |-> "invalid_transition", current |-> ""]
    ELSE IF NewStatus(table[enrollmentID].status, action) = "invalid action"
    THEN [result |-> "invalid_action", current |-> ""]
    ELSE [result |-> "invalid_transition", current |-> table[enrollmentID].status]

\* the errors of Service.UpdateEnrollmentStatus before its UPDATE:
\* "enrollment not found", "invalid action: <action> ..." and
\* "cannot <action> enrollment in status: <currentStatus>"
UpdateError(table, enrollmentID, action) ==
    IF enrollmentID \notin 1..Len(table)
    THEN [result |-> "not_found", current |-> ""]
    ELSE IF NewStatus(table[enrollmentID].status, action) = "invalid action"
    THEN [result |-> "invalid_action", current |-> ""]
    ELSE [result |-> "invalid_transition", current |-> table[enrollmentID].status]

NoCall == [op |-> "none", id |-> NoId, volunteer |-> NoId, project |-> NoId,
           user |-> NoId, action |-> "", current |-> "", result |-> ""]

\* EnrollmentHandler.CreateEnrollment with Service.CreateEnrollment
CreateEnrollment(userID, projectID, action, reqVolunteerID) ==
    LET volunteerID == IF action = "invite" THEN reqVolunteerID ELSE userID
        call == [NoCall EXCEPT !.op = "create", !.volunteer = volunteerID,
                               !.project = projectID, !.user = userID, !.action = action]
    IN  IF ~ ValidCreateAction(action) \/ InitialStatus(action) = "error" THEN
            /\ lastCall' = [call EXCEPT !.result = "invalid_action"]
            /\ UNCHANGED volunteer_enrollments
        ELSE IF action = "invite" /\ reqVolunteerID = NoId THEN
            /\ lastCall' = [call EXCEPT !.result = "bad_request"]
            /\ UNCHANGED volunteer_enrollments
        ELSE IF UniqueViolation(volunteer_enrollments, volunteerID, projectID) THEN
            /\ lastCall' = [call EXCEPT !.result = "conflict"]
            /\ UNCHANGED volunteer_enrollments
        ELSE
            /\ Len(volunteer_enrollments) < MaxEnrollments
            /\ volunteer_enrollments' = Append(volunteer_enrollments,
                   [volunteer_id |-> volunteerID, project_id |-> projectID,
                    status |-> InitialStatus(action), initiated_by |-> userID,
                    approved_at |-> FALSE])
            /\ lastCall' = [call EXCEPT !.result = "ok",
                                        !.id = Len(volunteer_enrollments) + 1]

\* requests are sent by a volunteer for themselves (no volunteerId in the
\* body), invitations by the coordinator
DoCreateEnrollment ==
    /\ \/ \E userID \in Volunteers, projectID \in Projects, action \in {"request", "cancel"} :
            CreateEnrollment(userID, projectID, action, NoId)
       \/ \E projectID \in Projects, reqVolunteerID \in Volunteers \cup {NoId} :
            CreateEnrollment(Coordinator, projectID, "invite", reqVolunteerID)
    /\ UNCHANGED <<calls, okLog>>
    /\ UNCHANGED matchVars

\* UpdateEnrollmentStatus up to its UPDATE: the handler's validation, the
\* SELECT of the current status and the choice of the new status.  The request
\* carries an enrollment id and an action only; sender is the user who sent
\* it, which no line of the handler or the service reads.
UpdateEnrollmentStatusSelect(sender, enrollmentID, action) ==
    LET call == [NoCall EXCEPT !.op = "update", !.id = enrollmentID, !.action = action,
                               !.user = sender]
    IN
    /\ BagCardinality(calls) < NumCallers
    /\ IF ~ ValidUpdateAction(action) THEN
            /\ lastCall' = [call EXCEPT !.result = "invalid_action"]
            /\ UNCHANGED calls
       ELSE IF enrollmentID \notin 1..Len(volunteer_enrollments) THEN
            /\ lastCall' = [call EXCEPT
                   !.result = UpdateError(volunteer_enrollments, enrollmentID, action).result]
            /\ UNCHANGED calls
       ELSE LET currentStatus == volunteer_enrollments[enrollmentID].status
                newStatus == NewStatus(currentStatus, action)
                error == UpdateError(volunteer_enrollments, enrollmentID, action)
            IN  IF newStatus \in {"cannot", "invalid action"} THEN
                    /\ lastCall' = [call EXCEPT !.result = error.result,
                                                !.current = error.current]
                    /\ UNCHANGED calls
                ELSE
                    /\ calls' = calls (+) SetToBag({[enrollmentID |-> enrollmentID,
                                   action |-> action, newStatus |-> newStatus,
                                   sender |-> sender]})
                    /\ UNCHANGED lastCall
    /\ UNCHANGED <<volunteer_enrollments, okLog>>

UpdateEnrollmentStatusExecEveryRow(c) ==
    LET id == c.enrollmentID
        newStatus == c.newStatus
        call == [NoCall EXCEPT !.op = "update", !.id = id, !.action = c.action,
                               !.user = c.sender]
    IN
    /\ BagIn(c, calls)
    /\ IF id \in 1..Len(volunteer_enrollments) THEN
            /\ volunteer_enrollments' =
                   [i \in 1..Len(volunteer_enrollments) |->
                       [volunteer_enrollments[i] EXCEPT
                           !.status = newStatus,
                           !.approved_at = IF newStatus = "enrolled" THEN TRUE ELSE @]]
            /\ lastCall' = [call EXCEPT !.result = "ok"]
            /\ okLog' = [okLog EXCEPT ![id] = Append(@, c.action)]
       ELSE
            /\ lastCall' = [call EXCEPT !.result = "not_found"]
            /\ UNCHANGED <<volunteer_enrollments, okLog>>
    /\ calls' = calls (-) SetToBag({c})

\* the UPDATE ... WHERE id = $1 of UpdateEnrollmentStatus and its return
UpdateEnrollmentStatusExec(c) ==
    LET id == c.enrollmentID
        newStatus == c.newStatus
        call == [NoCall EXCEPT !.op = "update", !.id = id, !.action = c.action,
                               !.user = c.sender]
    IN
    /\ BagIn(c, calls)
    /\ IF id \in 1..Len(volunteer_enrollments) THEN
            /\ volunteer_enrollments' = [volunteer_enrollments EXCEPT ![id] =
                   [@ EXCEPT !.status = newStatus,
                             !.approved_at = IF newStatus = "enrolled" THEN TRUE ELSE @]]
            /\ lastCall' = [call EXCEPT !.result = "ok"]
            /\ okLog' = [okLog EXCEPT ![id] = Append(@, c.action)]
       ELSE
            /\ lastCall' = [call EXCEPT !.result = "not_found"]
            /\ UNCHANGED <<volunteer_enrollments, okLog>>
    /\ calls' = calls (-) SetToBag({c})

DoUpdateSelect ==
    /\ \E enrollmentID \in 1..MaxEnrollments, action \in UpdateActions :
            UpdateEnrollmentStatusSelect(NoId, enrollmentID, action)
    /\ UNCHANGED matchVars

\* the same request, with the user who sends it
DoUpdateSelectFrom ==
    /\ \E sender \in Users, enrollmentID \in 1..MaxEnrollments,
          action \in {"accept", "reject", "withdraw"} :
            UpdateEnrollmentStatusSelect(sender, enrollmentID, action)
    /\ UNCHANGED matchVars

DoUpdateExec ==
    /\ \E c \in BagToSet(calls) : UpdateEnrollmentStatusExec(c)
    /\ UNCHANGED matchVars

IsVolunteerEnrolledOnlyApproved(table, volunteerID, projectID) ==
    \E i \in 1..Len(table) :
        /\ table[i].volunteer_id = volunteerID
        /\ table[i].project_id = projectID
        /\ table[i].status = "enrolled"

\* Service.IsVolunteerEnrolled: SELECT EXISTS (... AND status IN (...))
IsVolunteerEnrolled(table, volunteerID, projectID) ==
    \E i \in 1..Len(table) :
        /\ table[i].volunteer_id = volunteerID
        /\ table[i].project_id = projectID
        /\ table[i].status \in {"requested", "invited", "enrolled"}

\* EnrollmentHandler.CheckEnrollmentStatus
CheckEnrollmentStatus(volunteerID, projectID) ==
    /\ lastCall' = [NoCall EXCEPT !.op = "check", !.volunteer = volunteerID,
                                  !.project = projectID,
                                  !.result = IF IsVolunteerEnrolled(volunteer_enrollments,
                                                                    volunteerID, projectID)
                                             THEN "enrolled" ELSE "not_enrolled"]
    /\ UNCHANGED <<volunteer_enrollments, calls, okLog>>

DoCheckEnrollmentStatus ==
    /\ \E volunteerID \in Volunteers, projectID \in Projects :
            CheckEnrollmentStatus(volunteerID, projectID)
    /\ UNCHANGED matchVars

(***************************************************************************)
(* Scoring primitives.  Scores are integers in units of 10^-6, distances   *)
(* in units of 0.01 km, skill scores and weights in tenths.                *)
(***************************************************************************)
Dimension == 1000
EarthKmPerMilliDegree == 11119
NoLocationDistanceKm == 999999
MaxRadiusKm == 500
ProximityRangeKm == 100
MinCombinedScore == 100000
One == 1000000
DefaultLimit == 20
DefaultMaxDistanceKm == 100

Abs(x) == IF x < 0 THEN -x ELSE x
Min(a, b) == IF a <= b THEN a ELSE b
SetMax(S) == CHOOSE x \in S : \A y \in S : y <= x

\* hashtext(skill_id::text): a fixed hash of the skill id
HashText(skill) == -(skill * 500)

\* (@ hashtext(skill_id::text) % p_dimension) + 1
Position(skill) == (Abs(HashText(skill)) % Dimension) + 1

\* the positions of the vector that some skill maps to; the others are 0
UsedPositions == { Position(s) : s \in Skills }

Sum(f, S) ==
    LET RECURSIVE go(_)
        go(T) == IF T = {} THEN 0
                 ELSE LET x == CHOOSE y \in T : TRUE IN f[x] + go(T \ {x})
    IN go(S)

SlotValueSum(values, S) == Sum(values, S)

\* COALESCE(MAX(sp.score), 0) over the rows S joined to one position; scores
\* and weights are NOT NULL and CHECKed to be in [0, 1]
SlotValue(values, S) == SetMax({0} \cup { values[s] : s \in S })

\* get_volunteer_skill_vector / get_project_skill_vector with the default
\* dimension, as the positions some skill maps to
BuildVector(values) ==
    [i \in UsedPositions |->
        SlotValue(values, { t \in Skills : Position(t) = i /\ values[t] # NULL })]

\* skill_positions of get_volunteer_skill_vector: @ (hashtext % p_dimension) + 1;
\* SQL's % takes the sign of the hash, so its absolute value is |hash| mod D
volunteer_skill_position(skill, p_dimension) == (Abs(HashText(skill)) % p_dimension) + 1

\* skill_positions of get_project_skill_vector
project_skill_position(skill, p_dimension) == (Abs(HashText(skill)) % p_dimension) + 1

\* get_volunteer_skill_vector(p_volunteer_id, p_dimension): the whole vector
volunteer_skill_vector(p_volunteer_id, p_dimension) ==
    LET values == volunteer_skills[p_volunteer_id]
    IN  [i \in 1..p_dimension |->
            SlotValue(values, { s \in Skills : /\ values[s] # NULL
                                               /\ volunteer_skill_position(s, p_dimension) = i })]

\* get_project_skill_vector(p_project_id, p_dimension): the whole vector
project_skill_vector(p_project_id, p_dimension) ==
    LET values == project_skills[p_project_id]
    IN  [i \in 1..p_dimension |->
            SlotValue(values, { s \in Skills : /\ values[s] # NULL
                                               /\ project_skill_position(s, p_dimension) = i })]

NoVector == [fn |-> "none", id |-> NoId, dimension |-> 0, vector |-> <<>>]

\* SELECT get_volunteer_skill_vector(id, dimension)
GetVolunteerSkillVector(p_volunteer_id, p_dimension) ==
    lastVector' = [fn |-> "volunteer", id |-> p_volunteer_id, dimension |-> p_dimension,
                   vector |-> volunteer_skill_vector(p_volunteer_id, p_dimension)]

\* SELECT get_project_skill_vector(id, dimension)
GetProjectSkillVector(p_project_id, p_dimension) ==
    lastVector' = [fn |-> "project", id |-> p_project_id, dimension |-> p_dimension,
                   vector |-> project_skill_vector(p_project_id, p_dimension)]

get_volunteer_skill_vector(v) == BuildVector(volunteer_skills[v])
get_project_skill_vector(p) == BuildVector(project_skills[p])

Dot(a, b) == Sum([i \in UsedPositions |-> a[i] * b[i]], UsedPositions)

\* 1 - (a <=> b) of pgvector: NaN when a norm is zero, else the cosine
\* similarity clamped to [-1, 1]; here rounded down to a multiple of 0.01
CosineSimilarity(a, b) ==
    LET na == Dot(a, a)
        nb == Dot(b, b)
        d  == Dot(a, b)
    IN  IF na = 0 \/ nb = 0 THEN NaN
        ELSE (One \div 100) *
             (Cardinality({ s \in 0..100 : s * s * na * nb <= 10000 * d * d }) - 1)

\* the Haversine expression of refresh_all_matches and haversine_distance_km
\* for two points of one meridian (latitudes in units of 0.0001 degree),
\* in units of 0.01 km
HaversineDistance(lat1, lat2) ==
    (Abs(lat1 - lat2) * EarthKmPerMilliDegree + 5000) \div 10000

\* GREATEST(0, 1 - distance / range)
Proximity(distance, rangeKm) ==
    IF distance >= rangeKm * 100 THEN 0
    ELSE One - (distance * (One \div 100)) \div rangeKm

\* NaN compares equal to NaN and greater than every number
Greater(a, b) ==
    IF a = NaN THEN b # NaN ELSE IF b = NaN THEN FALSE ELSE a > b

\* skillTenths * skill + distanceTenths * proximity
Blend(skillTenths, skill, distanceTenths, proximity) ==
    IF skill = NaN THEN NaN
    ELSE (skillTenths * skill + distanceTenths * proximity) \div 10

\* a value stored in a DECIMAL(5,4) column
Decimal4(x) == IF x = NaN THEN NaN ELSE ((x + 50) \div 100) * 100

\* the region names of the national exception
RegionNames ==
    {"Canada", "Ontario", "Alberta", "British Columbia", "Quebec", "Manitoba",
     "Saskatchewan", "Nova Scotia", "New Brunswick", "Newfoundland",
     "Prince Edward Island", "Northwest Territories", "Yukon", "Nunavut"}

\* a location name is the set of place names it contains; x ILIKE '%r%'
SameRegion(p_location, u_location) ==
    /\ p_location # NullName
    /\ u_location # NullName
    /\ \E r \in RegionNames : r \in p_location /\ r \in u_location

(***************************************************************************)
(* Batch refresh: refresh_all_matches()                                    *)
(***************************************************************************)
\* FROM users u WHERE u.role = 'volunteer': the volunteers with a users row
VolunteerUsers == DOMAIN users

EnrolledStatusOfFilter == "active"

\* NOT EXISTS (SELECT 1 FROM volunteer_enrollments ve WHERE ... AND ve.status = 'active')
ExcludedByEnrollment(v, p) ==
    \E i \in 1..Len(volunteer_enrollments) :
        /\ volunteer_enrollments[i].volunteer_id = v
        /\ volunteer_enrollments[i].project_id = p
        /\ volunteer_enrollments[i].status = EnrolledStatusOfFilter

Tier1AnyStatus(v, p) ==
    /\ users[v].latitude # NULL
    /\ users[v].longitude # NULL
    /\ ~ ExcludedByEnrollment(v, p)

\* the WHERE clause of volunteer_project_combinations
Tier1(v, p) ==
    /\ projects[p].status = "active"
    /\ users[v].latitude # NULL
    /\ users[v].longitude # NULL
    /\ ~ ExcludedByEnrollment(v, p)

\* COALESCE(1 - (vsv.skill_vector <=> get_project_skill_vector(p.id)), 0)
SkillScore(v, p) ==
    IF volunteer_skill_vectors[v] = NullVector THEN 0
    ELSE CosineSimilarity(volunteer_skill_vectors[v], get_project_skill_vector(p))

DistanceKm(v, p) ==
    IF /\ projects[p].latitude # NULL /\ projects[p].longitude # NULL
       /\ users[v].latitude # NULL /\ users[v].longitude # NULL
    THEN HaversineDistance(projects[p].latitude, users[v].latitude)
    ELSE NoLocationDistanceKm * 100

CombinedScoreNoException(v, p) ==
    Blend(4, SkillScore(v, p), 6, Proximity(DistanceKm(v, p), ProximityRangeKm))

\* Tier 2 of tiered_matches
CombinedScore(v, p) ==
    IF SameRegion(projects[p].location_name, users[v].location_name)
    THEN Blend(7, SkillScore(v, p), 3, Proximity(DistanceKm(v, p), ProximityRangeKm))
    ELSE Blend(4, SkillScore(v, p), 6, Proximity(DistanceKm(v, p), ProximityRangeKm))

MatchedSkills(v, p) ==
    { s \in Skills : volunteer_skills[v][s] # NULL /\ project_skills[p][s] # NULL }

\* the rows the INSERT ... SELECT of refresh_all_matches writes
RefreshRows ==
    { [project_id |-> p, volunteer_id |-> v,
       skill_score |-> Decimal4(SkillScore(v, p)),
       distance_km |-> DistanceKm(v, p),
       combined_score |-> Decimal4(CombinedScore(v, p)),
       matched_skills |-> MatchedSkills(v, p)] :
      <<v, p>> \in { vp \in VolunteerUsers \X Projects :
                        /\ Tier1(vp[1], vp[2])
                        /\ DistanceKm(vp[1], vp[2]) <= MaxRadiusKm * 100
                        /\ Greater(CombinedScore(vp[1], vp[2]), MinCombinedScore) } }

NoRead == [op |-> "none", id |-> NoId, limit |-> 0, source |-> "none", rows |-> <<>>]
NoRefresh == [pc |-> "idle", rows |-> {}, match_count |-> 0, result |-> "none"]
\* what the last committed refresh wrote and returned; no count before the first
NeverPublished == [rows |-> {}, match_count |-> NULL]

\* a refresh under way holds the uncommitted table that only it can see
RefreshPcs == {"deleted", "inserted"}

RefreshDeleteInPlace ==
    /\ refresh.pc = "idle"
    /\ refresh' = [pc |-> "deleted", rows |-> {}, match_count |-> 0, result |-> "none"]
    /\ project_volunteer_matches' = {}
    /\ UNCHANGED published

RefreshDeleteKeepsRows ==
    /\ refresh.pc = "idle"
    /\ refresh' = [pc |-> "deleted", rows |-> project_volunteer_matches,
                   match_count |-> 0, result |-> "none"]
    /\ UNCHANGED <<project_volunteer_matches, published>>

\* DELETE FROM project_volunteer_matches, inside the statement's transaction
RefreshDelete ==
    /\ refresh.pc = "idle"
    /\ refresh' = [pc |-> "deleted", rows |-> {}, match_count |-> 0, result |-> "none"]
    /\ UNCHANGED <<project_volunteer_matches, published>>

RefreshInsertCountsTable ==
    /\ refresh.pc = "deleted"
    /\ refresh' = [pc |-> "inserted", rows |-> refresh.rows \cup RefreshRows,
                   match_count |-> Cardinality(project_volunteer_matches)
                                      + Cardinality(RefreshRows),
                   result |-> "none"]
    /\ UNCHANGED <<project_volunteer_matches, published>>

\* INSERT INTO project_volunteer_matches ... ; GET DIAGNOSTICS match_count = ROW_COUNT
RefreshInsert ==
    /\ refresh.pc = "deleted"
    /\ refresh' = [pc |-> "inserted", rows |-> refresh.rows \cup RefreshRows,
                   match_count |-> Cardinality(RefreshRows), result |-> "none"]
    /\ UNCHANGED <<project_volunteer_matches, published>>

\* UPDATE ... SET updated_at = NOW(); RETURN match_count; the statement commits
RefreshCommit ==
    /\ refresh.pc = "inserted"
    /\ project_volunteer_matches' = refresh.rows
    /\ published' = [rows |-> refresh.rows, match_count |-> refresh.match_count]
    /\ refresh' = [NoRefresh EXCEPT !.result = "ok"]

RefreshFailKeepsWrites ==
    /\ refresh.pc \in RefreshPcs
    /\ refresh' = [NoRefresh EXCEPT !.result = "error"]
    /\ project_volunteer_matches' = refresh.rows
    /\ UNCHANGED published

\* an error raised after the DELETE: the statement's transaction is rolled back
RefreshFail ==
    /\ refresh.pc \in RefreshPcs
    /\ refresh' = [NoRefresh EXCEPT !.result = "error"]
    /\ UNCHANGED <<project_volunteer_matches, published>>

DoRefreshDelete == RefreshDelete /\ lastRead' = NoRead /\ UNCHANGED <<dataVars, enrollVars, lastVector, sessions>>
DoRefreshInsert == RefreshInsert /\ lastRead' = NoRead /\ UNCHANGED <<dataVars, enrollVars, lastVector, sessions>>
DoRefreshCommit == RefreshCommit /\ lastRead' = NoRead /\ UNCHANGED <<dataVars, enrollVars, lastVector, sessions>>
DoRefreshFail == RefreshFail /\ lastRead' = NoRead /\ UNCHANGED <<dataVars, enrollVars, lastVector, sessions>>

(***************************************************************************)
(* Two database sessions that each run SELECT refresh_all_matches() at the *)
(* same time, under PostgreSQL's default READ COMMITTED isolation: every   *)
(* statement of the function sees the rows committed before it starts, a   *)
(* DELETE waits for a session that has deleted the same row, and the       *)
(* UNIQUE(project_id, volunteer_id) index makes an INSERT wait for a       *)
(* session that has inserted or deleted a row of the same pair.            *)
(***************************************************************************)
Sessions == {1, 2}
Other(t) == 3 - t

\* pc: idle, delete_wait, deleted, insert_wait, inserted.  victims: committed
\* rows this session's DELETE has removed; rows: what its INSERT selects;
\* partial: the rows inserted before the INSERT had to wait; overlapped: the
\* other session was running at some time of this invocation.
NoSession == [pc |-> "idle", victims |-> {}, rows |-> {}, partial |-> {},
              match_count |-> 0, result |-> "none", overlapped |-> FALSE]

Pairs(S) == { <<r.project_id, r.volunteer_id>> : r \in S }
Conflicts(S, new) == { r \in S : <<r.project_id, r.volunteer_id>> \in Pairs(new) }

\* the uncommitted rows a session has inserted so far
InsertedSoFar(s) ==
    IF s.pc = "inserted" THEN s.rows
    ELSE IF s.pc = "insert_wait" THEN s.partial
    ELSE {}

\* the statement raised an error: the session's transaction is rolled back
Aborted(s) == [NoSession EXCEPT !.result = "error", !.overlapped = s.overlapped]

\* a waiting session once the session it waited for has ended and left table
\* as the committed rows.  A DELETE that waited skips the rows the other
\* session deleted and committed, and removes them if it rolled back; an
\* INSERT that waited goes on, and fails on a committed row of the same pair.
Resume(s, table, otherCommitted) ==
    IF s.pc = "delete_wait" THEN
        [s EXCEPT !.pc = "deleted", !.victims = IF otherCommitted THEN {} ELSE table]
    ELSE IF s.pc = "insert_wait" THEN
        IF Conflicts(table \ s.victims, s.rows) # {}
        THEN Aborted(s)
        ELSE [s EXCEPT !.pc = "inserted", !.partial = {},
                       !.match_count = Cardinality(s.rows)]
    ELSE s

SessionDeleteSkipsRows(t) ==
    LET o == Other(t)
        busy == sessions[o].pc # "idle"
    IN
    /\ sessions[t].pc = "idle"
    /\ sessions' = [sessions EXCEPT
            ![t] = [NoSession EXCEPT !.pc = "deleted", !.victims = {}, !.overlapped = busy],
            ![o] = [@ EXCEPT !.overlapped = @ \/ busy]]
    /\ UNCHANGED <<project_volunteer_matches, refresh, published>>

\* DELETE FROM project_volunteer_matches in session t
SessionDelete(t) ==
    LET o == Other(t)
        busy == sessions[o].pc # "idle"
    IN
    /\ sessions[t].pc = "idle"
    /\ sessions' = [sessions EXCEPT
            ![t] = IF sessions[o].victims \cap project_volunteer_matches # {}
                   THEN [NoSession EXCEPT !.pc = "delete_wait", !.overlapped = busy]
                   ELSE [NoSession EXCEPT !.pc = "deleted",
                                          !.victims = project_volunteer_matches,
                                          !.overlapped = busy],
            ![o] = [@ EXCEPT !.overlapped = @ \/ busy]]
    /\ UNCHANGED <<project_volunteer_matches, refresh, published>>

\* what the INSERT of session t can come to: a unique violation on a committed
\* row it did not delete, a wait for the other session (a deadlock when that
\* one waits for t: PostgreSQL rolls one of the two back), or the insertion
InsertOutcomes(t) ==
    LET o == Other(t)
        s == sessions[t]
        table == project_volunteer_matches
        new == RefreshRows
        live == Conflicts(table \ s.victims, new)
        dirty == Conflicts(InsertedSoFar(sessions[o]), new)
        mustWait == (live \cap sessions[o].victims) # {} \/ dirty # {}
        violation == (live \ sessions[o].victims) # {}
        free == { r \in new : Conflicts(table \ s.victims, {r}) = {}
                                /\ Conflicts(InsertedSoFar(sessions[o]), {r}) = {} }
        waiting(partial) == [s EXCEPT !.pc = "insert_wait", !.rows = new, !.partial = partial]
    IN  IF violation \/ mustWait THEN
            { [sessions EXCEPT ![t] = Aborted(s), ![o] = Resume(@, table, FALSE)]
                : x \in IF violation \/ (mustWait /\ sessions[o].pc = "insert_wait")
                        THEN {0} ELSE {} }
            \cup
            { [sessions EXCEPT ![t] = waiting(partial)]
                : partial \in IF mustWait /\ sessions[o].pc # "insert_wait"
                              THEN SUBSET free ELSE {} }
            \cup
            { [sessions EXCEPT ![t] = Resume(waiting({}), table, FALSE),
                               ![o] = Aborted(@)]
                : x \in IF mustWait /\ sessions[o].pc = "insert_wait" THEN {0} ELSE {} }
        ELSE
            { [sessions EXCEPT ![t] = [s EXCEPT !.pc = "inserted", !.rows = new,
                                                !.match_count = Cardinality(new)]] }

\* INSERT INTO project_volunteer_matches ... in session t
SessionInsert(t) ==
    /\ sessions[t].pc = "deleted"
    /\ sessions' \in InsertOutcomes(t)
    /\ UNCHANGED <<project_volunteer_matches, refresh, published>>

\* the UPDATE of updated_at, RETURN match_count and the commit of session t
SessionCommit(t) ==
    LET s == sessions[t]
        table == (project_volunteer_matches \ s.victims) \cup s.rows
    IN
    /\ s.pc = "inserted"
    /\ project_volunteer_matches' = table
    /\ published' = [rows |-> table, match_count |-> s.match_count]
    /\ sessions' = [sessions EXCEPT
            ![t] = [s EXCEPT !.pc = "idle", !.victims = {}, !.result = "ok"],
            ![Other(t)] = Resume(@, table, TRUE)]
    /\ UNCHANGED refresh

DoSessionDelete ==
    /\ \E t \in Sessions : SessionDelete(t)
    /\ lastRead' = NoRead /\ UNCHANGED <<dataVars, enrollVars, lastVector>>

DoSessionInsert ==
    /\ \E t \in Sessions : SessionInsert(t)
    /\ lastRead' = NoRead /\ UNCHANGED <<dataVars, enrollVars, lastVector>>

DoSessionCommit ==
    /\ \E t \in Sessions : SessionCommit(t)
    /\ lastRead' = NoRead /\ UNCHANGED <<dataVars, enrollVars, lastVector>>

(***************************************************************************)
(* Reads: get_project_matches over the committed cache, and the on-demand  *)
(* find_matching_volunteers the service falls back to.                     *)
(***************************************************************************)
Perms(S) ==
    LET RECURSIVE go(_)
        go(T) == IF T = {} THEN {<<>>}
                 ELSE UNION { { <<x>> \o q : q \in go(T \ {x}) } : x \in T }
    IN go(S)

RankedUnsorted(S, limit) ==
    { SubSeq(q, 1, Min(limit, Len(q))) : q \in Perms(S) }

\* ORDER BY combined_score DESC LIMIT limit: every order the sort may give
Ranked(S, limit) ==
    { SubSeq(q, 1, Min(limit, Len(q))) :
        q \in { r \in Perms(S) :
                  \A i \in 1..(Len(r) - 1) :
                      ~ Greater(r[i + 1].combined_score, r[i].combined_score) } }

\* the rows of get_project_matches(p_project_id, p_limit) before ORDER BY
get_project_matches(p_project_id) ==
    { [volunteer_id |-> m.volunteer_id,
       skill_score |-> m.skill_score,
       distance_km |-> m.distance_km,
       combined_score |-> m.combined_score,
       latitude |-> users[m.volunteer_id].latitude,
       longitude |-> users[m.volunteer_id].longitude] :
      m \in { r \in project_volunteer_matches : r.project_id = p_project_id } }

\* skill_similarity of find_matching_volunteers
SkillSimilarity(v, p) ==
    IF volunteer_skill_vectors[v] # NullVector
    THEN CosineSimilarity(volunteer_skill_vectors[v], get_project_skill_vector(p))
    ELSE 0

\* distance of find_matching_volunteers: NULL when a coordinate is missing
OnDemandDistance(v, p) ==
    IF /\ users[v].latitude # NULL /\ users[v].longitude # NULL
       /\ projects[p].latitude # NULL /\ projects[p].longitude # NULL
    THEN HaversineDistance(users[v].latitude, projects[p].latitude)
    ELSE NULL

\* the proximity term of find_matching_volunteers: 0.5 when distance is NULL
OnDemandProximity(distance, p_max_distance_km) ==
    IF distance # NULL /\ p_max_distance_km > 0
    THEN Proximity(distance, p_max_distance_km)
    ELSE One \div 2

\* WHERE vm.distance IS NULL OR vm.distance <= p_max_distance_km
OnDemandKept(distance, p_max_distance_km) ==
    distance = NULL \/ distance <= p_max_distance_km * 100

\* the rows of find_matching_volunteers before ORDER BY
find_matching_volunteers(p_project_id, skillTenths, distanceTenths, p_max_distance_km) ==
    { [volunteer_id |-> v,
       skill_score |-> SkillSimilarity(v, p_project_id),
       distance_km |-> IF OnDemandDistance(v, p_project_id) = NULL THEN 0
                       ELSE OnDemandDistance(v, p_project_id),
       combined_score |-> Blend(skillTenths, SkillSimilarity(v, p_project_id), distanceTenths,
                                OnDemandProximity(OnDemandDistance(v, p_project_id),
                                                  p_max_distance_km)),
       latitude |-> users[v].latitude,
       longitude |-> users[v].longitude] :
      v \in { u \in VolunteerUsers :
                OnDemandKept(OnDemandDistance(u, p_project_id), p_max_distance_km) } }

\* Service.findMatchingVolunteersOnDemand with the request's weights left at 0
findMatchingVolunteersOnDemand(projectID, limit) ==
    \E rows \in Ranked(find_matching_volunteers(projectID, 7, 3, DefaultMaxDistanceKm),
                       IF limit = 0 THEN DefaultLimit ELSE limit) :
        lastRead' = [op |-> "volunteers", id |-> projectID, limit |-> limit,
                     source |-> "on_demand", rows |-> rows]

\* Service.FindMatchingVolunteers: the cached query, the fallback when it errors
FindMatchingVolunteers(projectID, limit, queryFails) ==
    /\ IF queryFails
       THEN findMatchingVolunteersOnDemand(projectID, limit)
       ELSE \E rows \in Ranked(get_project_matches(projectID),
                               IF limit = 0 THEN DefaultLimit ELSE limit) :
               lastRead' = [op |-> "volunteers", id |-> projectID, limit |-> limit,
                            source |-> "cache", rows |-> rows]
    /\ UNCHANGED <<dataVars, cacheVars>>

DoFindMatchingVolunteers ==
    /\ \E projectID \in Projects, limit \in {0, 1}, queryFails \in BOOLEAN :
          FindMatchingVolunteers(projectID, limit, queryFails)
    /\ UNCHANGED <<enrollVars, lastVector>>

\* the rows of get_volunteer_matches(p_volunteer_id, p_limit) before ORDER BY
get_volunteer_matches(p_volunteer_id) ==
    { [project_id |-> m.project_id,
       skill_score |-> m.skill_score,
       distance_km |-> m.distance_km,
       combined_score |-> m.combined_score] :
      m \in { r \in project_volunteer_matches :
                /\ r.volunteer_id = p_volunteer_id
                /\ projects[r.project_id].status = "active" } }

\* Service.findMatchingProjectsOnDemand: the active projects at fixed scores;
\* ORDER BY p.name is any order of the rows
findMatchingProjectsOnDemand(volunteerID, limit) ==
    \E rows \in Ranked({ [project_id |-> p, skill_score |-> One \div 2, distance_km |-> 0,
                          combined_score |-> One \div 2] :
                         p \in { q \in Projects : projects[q].status = "active" } },
                       IF limit = 0 THEN DefaultLimit ELSE limit) :
        lastRead' = [op |-> "projects", id |-> volunteerID, limit |-> limit,
                     source |-> "on_demand", rows |-> rows]

\* Service.FindMatchingProjects: the cached query, the fallback when it errors
FindMatchingProjects(volunteerID, limit, queryFails) ==
    /\ IF queryFails
       THEN findMatchingProjectsOnDemand(volunteerID, limit)
       ELSE \E rows \in Ranked(get_volunteer_matches(volunteerID),
                               IF limit = 0 THEN DefaultLimit ELSE limit) :
               lastRead' = [op |-> "projects", id |-> volunteerID, limit |-> limit,
                            source |-> "cache", rows |-> rows]
    /\ UNCHANGED <<dataVars, cacheVars>>

\* Handler.FindMatchesForVolunteer: responds with its fixed test row and
\* returns before it reads the request's parameters or calls the service
FindMatchesForVolunteer(volunteerID, limit) ==
    /\ lastRead' = [op |-> "projects", id |-> volunteerID, limit |-> limit,
                    source |-> "handler",
                    rows |-> << [project_id |-> NoId, skill_score |-> One \div 2,
                                 distance_km |-> 0, combined_score |-> One \div 2] >>]
    /\ UNCHANGED <<dataVars, cacheVars>>

DoFindMatchesForVolunteer ==
    /\ \E volunteerID \in VolunteerUsers, limit \in {0, 1} :
          FindMatchesForVolunteer(volunteerID, limit)
    /\ UNCHANGED <<enrollVars, lastVector>>

DoFindMatchingProjects ==
    /\ \E volunteerID \in VolunteerUsers, limit \in {0, 1}, queryFails \in BOOLEAN :
          FindMatchingProjects(volunteerID, limit, queryFails)
    /\ UNCHANGED <<enrollVars, lastVector>>

(***************************************************************************)
(* Writers of the data the refresh reads                                   *)
(***************************************************************************)
ProjectStatuses == {"draft", "active", "retired"}

Toronto ==
    [latitude |-> 437000, longitude |-> -794000, location_name |-> {"Toronto", "Ontario", "Canada"}]
Vaughan ==
    [latitude |-> 438500, longitude |-> -794000, location_name |-> {"Vaughan", "Ontario"}]
Nowhere == [latitude |-> NULL, longitude |-> NULL, location_name |-> NullName]
Places == {Vaughan}

UpdateProjectStatusDropsMatches(projectID, status) ==
    /\ projects' = [projects EXCEPT ![projectID].status = status]
    /\ UNCHANGED <<users, volunteer_skills, project_skills, volunteer_skill_vectors>>
    /\ lastRead' = NoRead
    /\ project_volunteer_matches' =
          IF status = "active" THEN project_volunteer_matches
          ELSE { m \in project_volunteer_matches : m.project_id # projectID }
    /\ UNCHANGED <<refresh, published, sessions, enrollVars, lastVector>>

\* projects.Service.UpdateProjectStatus
UpdateProjectStatus(projectID, status) ==
    /\ projects' = [projects EXCEPT ![projectID].status = status]
    /\ UNCHANGED <<users, volunteer_skills, project_skills, volunteer_skill_vectors>>
    /\ lastRead' = NoRead
    /\ UNCHANGED <<cacheVars, enrollVars, lastVector>>

\* skills.Service.UpdateVolunteerLocation
UpdateVolunteerLocation(volunteerID, place) ==
    /\ users' = [users EXCEPT ![volunteerID] = place]
    /\ UNCHANGED <<projects, volunteer_skills, project_skills, volunteer_skill_vectors>>
    /\ lastRead' = NoRead
    /\ UNCHANGED <<cacheVars, enrollVars, lastVector>>

DoUpdateProjectStatus ==
    \E projectID \in Projects, status \in ProjectStatuses :
        UpdateProjectStatus(projectID, status)

DoUpdateVolunteerLocation ==
    \E volunteerID \in VolunteerUsers, place \in Places :
        UpdateVolunteerLocation(volunteerID, place)

\* the scores and weights a request can carry, in tenths: below the range,
\* the upper end of the range, above the range
SkillInputs == {-1, 10, 11}

\* what the caller sent: every value in range, the first value out of range,
\* or a value out of range after an entry in range
RequestKind(values) ==
    IF \A i \in 1..Len(values) : values[i] >= 0 /\ values[i] <= 10 THEN "in_range"
    ELSE IF values[1] >= 0 /\ values[1] <= 10 THEN "out_of_range_later"
    ELSE "out_of_range_first"

TxEndKeepsWrites(before, tx) == tx.rows

\* tx.Commit() on a nil return, the deferred tx.Rollback() on an error
TxEnd(before, tx) == IF tx.err THEN before ELSE tx.rows

\* the loop of UpdateVolunteerSkills inside its transaction: validation, then
\* INSERT ... ON CONFLICT (volunteer_id, skill_id) DO UPDATE
RECURSIVE UpsertVolunteerSkills(_, _)
UpsertVolunteerSkills(rows, skills) ==
    IF skills = <<>> THEN [err |-> FALSE, rows |-> rows]
    ELSE LET skill == Head(skills)
         IN  IF skill.Score < 0 \/ skill.Score > 10
             THEN [err |-> TRUE, rows |-> rows]
             ELSE UpsertVolunteerSkills(
                      [rows EXCEPT ![skill.SkillID] = IF skill.Claimed THEN skill.Score ELSE NULL],
                      Tail(skills))

\* skills.Service.UpdateVolunteerSkills
UpdateVolunteerSkills(volunteerID, skills) ==
    LET tx == UpsertVolunteerSkills(volunteer_skills[volunteerID], skills)
    IN
    /\ volunteer_skills' = [volunteer_skills EXCEPT ![volunteerID] = TxEnd(@, tx)]
    /\ lastCall' = [NoCall EXCEPT !.op = "volunteer_skills", !.volunteer = volunteerID,
                                  !.action = RequestKind([i \in 1..Len(skills) |-> skills[i].Score]),
                                  !.result = IF tx.err THEN "error" ELSE "ok"]
    /\ UNCHANGED <<projects, users, project_skills, volunteer_skill_vectors>>
    /\ UNCHANGED <<volunteer_enrollments, calls, okLog>>
    /\ UNCHANGED <<cacheVars, lastRead, lastVector>>

\* the loop of SetProjectSkills after its DELETE: validation, then INSERT,
\* which fails on a second row of the same (project_id, skill_id)
RECURSIVE InsertProjectSkills(_, _)
InsertProjectSkills(rows, skills) ==
    IF skills = <<>> THEN [err |-> FALSE, rows |-> rows]
    ELSE LET skill == Head(skills)
         IN  IF skill.Weight < 0 \/ skill.Weight > 10
             THEN [err |-> TRUE, rows |-> rows]
             ELSE IF rows[skill.SkillID] # NULL
             THEN [err |-> TRUE, rows |-> rows]
             ELSE InsertProjectSkills([rows EXCEPT ![skill.SkillID] = skill.Weight],
                                      Tail(skills))

\* projects.Service.SetProjectSkills
SetProjectSkills(projectID, skills) ==
    LET tx == InsertProjectSkills([s \in Skills |-> NULL], skills)
    IN
    /\ project_skills' = [project_skills EXCEPT ![projectID] = TxEnd(@, tx)]
    /\ lastCall' = [NoCall EXCEPT !.op = "project_skills", !.project = projectID,
                                  !.action = RequestKind([i \in 1..Len(skills) |-> skills[i].Weight]),
                                  !.result = IF tx.err THEN "error" ELSE "ok"]
    /\ UNCHANGED <<projects, users, volunteer_skills, volunteer_skill_vectors>>
    /\ UNCHANGED <<volunteer_enrollments, calls, okLog>>
    /\ UNCHANGED <<cacheVars, lastRead, lastVector>>

\* matching.Service.RefreshSkillVectors: REFRESH MATERIALIZED VIEW
\* volunteer_skill_vectors, one row per user of role volunteer
RefreshSkillVectors ==
    /\ volunteer_skill_vectors' = [v \in VolunteerUsers |-> get_volunteer_skill_vector(v)]
    /\ lastRead' = NoRead
    /\ UNCHANGED <<projects, users, volunteer_skills, project_skills>>
    /\ UNCHANGED <<cacheVars, enrollVars, lastVector>>

\* the request bodies: one entry, or two entries
VolunteerSkillEntries ==
    [SkillID : Skills, Claimed : BOOLEAN, Score : SkillInputs]

ProjectSkillEntries ==
    [SkillID : Skills, Weight : SkillInputs]

Lists(Entries) ==
    { <<a>> : a \in Entries } \cup { <<a, b>> : a, b \in Entries }

DoUpdateVolunteerSkills ==
    \E volunteerID \in VolunteerUsers, skills \in Lists(VolunteerSkillEntries) :
        UpdateVolunteerSkills(volunteerID, skills)

DoSetProjectSkills ==
    \E projectID \in Projects, skills \in Lists(ProjectSkillEntries) :
        SetProjectSkills(projectID, skills)

DoRefreshSkillVectors == RefreshSkillVectors

\* the same handlers with a body of one valid entry: volunteer 1 claims or
\* drops skill 1, the project demands skill 1 or skill 2 alone
DoUpdateOneVolunteerSkill ==
    \E claimed \in BOOLEAN :
        UpdateVolunteerSkills(1, <<[SkillID |-> 1, Claimed |-> claimed, Score |-> 10]>>)

DoSetOneProjectSkill ==
    \E projectID \in Projects, skill \in {1, 2} :
        SetProjectSkills(projectID, <<[SkillID |-> skill, Weight |-> 10]>>)

DoGetVolunteerSkillVector ==
    /\ \E p_volunteer_id \in VolunteerUsers, p_dimension \in 1..MaxDimension :
            GetVolunteerSkillVector(p_volunteer_id, p_dimension)
    /\ UNCHANGED <<dataVars, cacheVars, lastRead, enrollVars>>

DoGetProjectSkillVector ==
    /\ \E p_project_id \in Projects, p_dimension \in 1..MaxDimension :
            GetProjectSkillVector(p_project_id, p_dimension)
    /\ UNCHANGED <<dataVars, cacheVars, lastRead, enrollVars>>

(***************************************************************************)
(* Specifications                                                          *)
(***************************************************************************)
\* the skills of the volunteers and of the project, scores and weights in tenths
SkillProfile(v) == [s \in Skills |-> IF s = ((v - 1) % NumSkills) + 1 THEN 8 ELSE NULL]
NoSkills == [s \in Skills |-> NULL]
RequiredSkills == [s \in Skills |-> IF s = 1 THEN 10 ELSE NULL]

\* an enrollment row as CreateEnrollment and UpdateEnrollmentStatus leave it
EnrollmentRow(v, p, status) ==
    [volunteer_id |-> v, project_id |-> p, status |-> status, initiated_by |-> v,
     approved_at |-> (status = "enrolled")]

InitEnrollment ==
    /\ calls = EmptyBag
    /\ lastCall = NoCall
    /\ okLog = [id \in 1..MaxEnrollments |-> <<>>]

InitCache ==
    /\ lastVector = NoVector
    /\ sessions = [t \in Sessions |-> NoSession]
    /\ project_volunteer_matches = {}
    /\ refresh = NoRefresh
    /\ published = NeverPublished
    /\ lastRead = NoRead

\* the enrollment state machine over a fixed project and fixed volunteers
Init ==
    /\ volunteer_enrollments = <<>>
    /\ InitEnrollment
    /\ projects = [p \in Projects |-> Toronto @@ [status |-> "active"]]
    /\ users = [v \in Volunteers |-> Vaughan]
    /\ volunteer_skills = [v \in Volunteers |-> SkillProfile(v)]
    /\ project_skills = [p \in Projects |-> RequiredSkills]
    /\ volunteer_skill_vectors = [v \in Volunteers |-> NullVector]
    /\ InitCache

Next ==
    \/ DoCreateEnrollment
    \/ DoUpdateSelect
    \/ DoUpdateExec
    \/ DoCheckEnrollmentStatus

Spec == Init /\ [][Next]_vars

\* the enrollment machine with the sender of every transition request
InitActor == Init

NextActor ==
    \/ DoCreateEnrollment
    \/ DoUpdateSelectFrom
    \/ DoUpdateExec

SpecActor == InitActor /\ [][NextActor]_vars

\* the match cache over the data the enrollment machine and the data
\* writers can have left
InitMatch ==
    /\ volunteer_enrollments \in
          {<<>>} \cup { <<EnrollmentRow(1, 1, status)>> : status \in {"requested", "enrolled"} }
    /\ InitEnrollment
    /\ projects \in [Projects -> { place @@ [status |-> "draft"] : place \in {Toronto, Nowhere} }]
    /\ users \in [Volunteers -> {Nowhere, Vaughan}]
    /\ volunteer_skills = [v \in Volunteers |-> SkillProfile(v)]
    /\ project_skills \in [Projects -> {NoSkills, RequiredSkills}]
    /\ volunteer_skill_vectors \in
          { f \in [Volunteers -> {NullVector} \cup { BuildVector(SkillProfile(v)) : v \in Volunteers }] :
              \A v \in Volunteers : f[v] \in {NullVector, BuildVector(SkillProfile(v))} }
    /\ InitCache

NextMatch ==
    \/ DoRefreshDelete
    \/ DoRefreshInsert
    \/ DoRefreshCommit
    \/ DoRefreshFail
    \/ DoFindMatchingVolunteers
    \/ DoFindMatchingProjects
    \/ DoUpdateProjectStatus
    \/ DoUpdateVolunteerLocation

SpecMatch == InitMatch /\ [][NextMatch]_vars

\* places at 83.33 km outside the regions, at 189 km and at 523 km inside the
\* project's region, and coordinates without a location name
Lewiston ==
    [latitude |-> 429506, longitude |-> -794000, location_name |-> {"Lewiston", "New York"}]
Ottawa ==
    [latitude |-> 454000, longitude |-> -794000, location_name |-> {"Ottawa", "Ontario"}]
ThunderBay ==
    [latitude |-> 484000, longitude |-> -794000, location_name |-> {"Thunder Bay", "Ontario"}]
Unnamed == [latitude |-> 438500, longitude |-> -794000, location_name |-> NullName]
ScorePlaces == {Nowhere, Vaughan, Lewiston, Ottawa, ThunderBay, Unnamed}
BothSkills == [s \in Skills |-> IF s \in {1, 2} THEN 10 ELSE NULL]

\* the refresh as a function of the tables: any data, no writer but the refresh
InitScore ==
    /\ volunteer_enrollments = <<>>
    /\ InitEnrollment
    /\ projects \in [Projects -> { place @@ [status |-> status] :
                                      place \in {Toronto, Unnamed, Nowhere},
                                      status \in {"draft", "active"} }]
    /\ users \in [Volunteers -> ScorePlaces]
    /\ volunteer_skills = [v \in Volunteers |-> SkillProfile(v)]
    /\ project_skills \in [Projects -> {NoSkills, RequiredSkills, BothSkills}]
    /\ volunteer_skill_vectors \in
          { f \in [Volunteers -> {NullVector} \cup { BuildVector(SkillProfile(v)) : v \in Volunteers }] :
              \A v \in Volunteers : f[v] \in {NullVector, BuildVector(SkillProfile(v))} }
    /\ InitCache

NextScore ==
    \/ DoRefreshDelete
    \/ DoRefreshInsert
    \/ DoRefreshCommit
    \/ DoRefreshFail

SpecScore == InitScore /\ [][NextScore]_vars

\* the readers over a cache with a ranking: one volunteer more than the
\* enrollment machine needs, all located, the project active at first
RankVolunteers == 1..(NumVolunteers + 1)

InitRank ==
    /\ volunteer_enrollments = <<>>
    /\ InitEnrollment
    /\ projects = [p \in Projects |-> Toronto @@ [status |-> "active"]]
    /\ users \in [RankVolunteers -> {Vaughan, Lewiston}]
    /\ volunteer_skills = [v \in RankVolunteers |-> SkillProfile(v)]
    /\ project_skills = [p \in Projects |-> RequiredSkills]
    /\ volunteer_skill_vectors \in
          { f \in [RankVolunteers ->
                     {NullVector} \cup { BuildVector(SkillProfile(v)) : v \in RankVolunteers }] :
              \A v \in RankVolunteers : f[v] \in {NullVector, BuildVector(SkillProfile(v))} }
    /\ InitCache

NextRank ==
    \/ DoRefreshDelete
    \/ DoRefreshInsert
    \/ DoRefreshCommit
    \/ DoRefreshFail
    \/ DoFindMatchingVolunteers
    \/ DoFindMatchingProjects
    \/ DoFindMatchesForVolunteer
    \/ DoUpdateProjectStatus

SpecRank == InitRank /\ [][NextRank]_vars

\* two sessions that refresh the cache while the project's status changes
InitOverlap ==
    /\ volunteer_enrollments = <<>>
    /\ InitEnrollment
    /\ projects = [p \in Projects |-> Toronto @@ [status |-> "active"]]
    /\ users = [v \in RankVolunteers |-> Vaughan]
    /\ volunteer_skills = [v \in RankVolunteers |-> SkillProfile(v)]
    /\ project_skills = [p \in Projects |-> RequiredSkills]
    /\ volunteer_skill_vectors = [v \in RankVolunteers |-> NullVector]
    /\ InitCache

NextOverlap ==
    \/ DoSessionDelete
    \/ DoSessionInsert
    \/ DoSessionCommit
    \/ DoUpdateProjectStatus

SpecOverlap == InitOverlap /\ [][NextOverlap]_vars

\* the skill vector functions over any claims and demands: scores and
\* weights in tenths, every volunteer with the same claims
SkillValues == {NULL, 0, 4, 10}

InitVector ==
    /\ volunteer_enrollments = <<>>
    /\ InitEnrollment
    /\ projects = [p \in Projects |-> Toronto @@ [status |-> "active"]]
    /\ users = [v \in Volunteers |-> Vaughan]
    /\ \E values \in [Skills -> SkillValues] : volunteer_skills = [v \in Volunteers |-> values]
    /\ project_skills \in [Projects -> [Skills -> SkillValues]]
    /\ volunteer_skill_vectors = [v \in Volunteers |-> NullVector]
    /\ InitCache

NextVector ==
    \/ DoGetVolunteerSkillVector
    \/ DoGetProjectSkillVector

SpecVector == InitVector /\ [][NextVector]_vars

\* the match cache while volunteers change their claims: the view of skill
\* vectors is fresh at first, as after migration 005
InitStale ==
    /\ volunteer_enrollments = <<>>
    /\ InitEnrollment
    /\ projects = [p \in Projects |-> Toronto @@ [status |-> "active"]]
    /\ users = [v \in Volunteers |-> Vaughan]
    /\ volunteer_skills = [v \in Volunteers |-> SkillProfile(v)]
    /\ project_skills = [p \in Projects |-> RequiredSkills]
    /\ volunteer_skill_vectors = [v \in Volunteers |-> BuildVector(SkillProfile(v))]
    /\ InitCache

NextStale ==
    \/ DoUpdateVolunteerSkills
    \/ DoRefreshSkillVectors
    \/ DoRefreshDelete
    \/ DoRefreshInsert
    \/ DoRefreshCommit
    \/ DoRefreshFail

SpecStale == InitStale /\ [][NextStale]_vars

\* refresh after refresh while the view of skill vectors is rebuilt and the
\* project's status changes in between
InitReplace == InitRank

NextReplace ==
    \/ DoRefreshDelete
    \/ DoRefreshInsert
    \/ DoRefreshCommit
    \/ DoRefreshFail
    \/ DoRefreshSkillVectors
    \/ DoUpdateProjectStatus

SpecReplace == InitReplace /\ [][NextReplace]_vars

\* the skill writers over the claims and demands of the seed data
InitSkills == Init

NextSkills ==
    \/ DoUpdateVolunteerSkills
    \/ DoSetProjectSkills

SpecSkills == InitSkills /\ [][NextSkills]_vars

\* the enrollment machine with one volunteer more, so that the table holds
\* several rows; transition requests are served one at a time
DoCreateEnrollmentAmong ==
    /\ \/ \E userID \in RankVolunteers, projectID \in Projects :
            CreateEnrollment(userID, projectID, "request", NoId)
       \/ \E projectID \in Projects, reqVolunteerID \in RankVolunteers :
            CreateEnrollment(Coordinator, projectID, "invite", reqVolunteerID)
    /\ UNCHANGED <<calls, okLog>>
    /\ UNCHANGED matchVars

InitRows == Init

NextRows ==
    \/ DoCreateEnrollmentAmong
    \/ (calls = EmptyBag /\ DoUpdateSelect)
    \/ DoUpdateExec

SpecRows == InitRows /\ [][NextRows]_vars

\* the enrollment handlers and the data writers between and during the
\* refreshes of the cache: one enrollment, its transition requests served
\* one at a time
InitFrame == Init

NextFrame ==
    \/ (volunteer_enrollments = <<>> /\ DoCreateEnrollment)
    \/ (calls = EmptyBag /\ DoUpdateSelect)
    \/ DoUpdateExec
    \/ DoCheckEnrollmentStatus
    \/ DoUpdateOneVolunteerSkill
    \/ DoSetOneProjectSkill
    \/ DoUpdateVolunteerLocation
    \/ DoUpdateProjectStatus
    \/ DoRefreshDelete
    \/ DoRefreshInsert
    \/ DoRefreshCommit
    \/ DoRefreshFail

SpecFrame == InitFrame /\ [][NextFrame]_vars

(***************************************************************************)
(* Properties of the enrollment state machine                              *)
(***************************************************************************)
RowIds == 1..Len(volunteer_enrollments)

\* the step is the return of a handler call of kind op
Returned(op) == lastCall' # lastCall /\ lastCall'.op = op

PairExists(volunteerID, projectID) ==
    \E i \in RowIds : /\ volunteer_enrollments[i].volunteer_id = volunteerID
                      /\ volunteer_enrollments[i].project_id = projectID

\* the transition table of the enrollment state machine
TransitionTable ==
    { <<"requested", "accept", "enrolled">>,
      <<"requested", "reject", "tl_rejected">>,
      <<"requested", "withdraw", "v_rejected">>,
      <<"invited", "accept", "enrolled">>,
      <<"invited", "reject", "v_rejected">> }

C2_AtMostOneTransitionSucceeds ==
    \A id \in RowIds :
        /\ Len(okLog[id]) <= 1
        /\ (\E k \in 1..Len(okLog[id]) : okLog[id][k] = "accept")
              => volunteer_enrollments[id].status = "enrolled"

\* C3: a transition on an enrolled, tl_rejected or v_rejected row is rejected
\* as invalid, and the status of such a row never changes again.
C3_TerminalNeverChanges ==
    [][ \A id \in RowIds :
          volunteer_enrollments[id].status \in Terminal
            => /\ volunteer_enrollments'[id].status = volunteer_enrollments[id].status
               /\ (Returned("update") /\ lastCall'.id = id /\ lastCall'.action # "cancel")
                     => lastCall'.result = "invalid_transition" ]_vars

\* C4: a status change of a requested or invited row is the table's transition
\* for the action that returned success, an action the table has for the
\* row's status is not refused, and withdraw on an invited row is refused as
\* an invalid transition and leaves the row invited.
C4_TransitionsFollowTable ==
    [][ /\ \A id \in RowIds :
              ( /\ volunteer_enrollments[id].status \in {"requested", "invited"}
                /\ volunteer_enrollments'[id].status # volunteer_enrollments[id].status )
              => /\ lastCall'.op = "update" /\ lastCall'.id = id /\ lastCall'.result = "ok"
                 /\ <<volunteer_enrollments[id].status, lastCall'.action,
                       volunteer_enrollments'[id].status>> \in TransitionTable
        /\ ( Returned("update") /\ lastCall'.result = "invalid_transition" )
              => /\ volunteer_enrollments' = volunteer_enrollments
                 /\ ~ \E t \in TransitionTable :
                         t[1] = lastCall'.current /\ t[2] = lastCall'.action
        /\ \A c \in BagToSet(calls') :
              CopiesIn(c, calls') > CopiesIn(c, calls)
              => <<volunteer_enrollments[c.enrollmentID].status,
                   c.action, c.newStatus>> \in TransitionTable ]_vars

\* the coordinator's invitation was rejected by a successful reject
C4_Witness ==
    /\ lastCall.op = "update" /\ lastCall.result = "ok" /\ lastCall.action = "reject"
    /\ lastCall.id \in RowIds
    /\ volunteer_enrollments[lastCall.id].initiated_by = Coordinator
    /\ volunteer_enrollments[lastCall.id].status = "v_rejected"

\* C5: CreateEnrollment with request or invite on a pair without a row appends
\* exactly one row: status requested for request and invited for invite, the
\* given volunteer, project and initiator, and no approved timestamp.
C5_CreateOnFreshPair ==
    [][ ( /\ Returned("create")
          /\ lastCall'.action \in {"request", "invite"}
          /\ lastCall'.volunteer # NoId
          /\ ~ PairExists(lastCall'.volunteer, lastCall'.project) )
        => /\ lastCall'.result = "ok"
           /\ lastCall'.id = Len(volunteer_enrollments) + 1
           /\ volunteer_enrollments' = Append(volunteer_enrollments,
                 [volunteer_id |-> lastCall'.volunteer,
                  project_id |-> lastCall'.project,
                  status |-> IF lastCall'.action = "request" THEN "requested" ELSE "invited",
                  initiated_by |-> lastCall'.user,
                  approved_at |-> FALSE]) ]_vars

\* the coordinator's invitation of a volunteer was created
C5_Witness ==
    /\ lastCall.op = "create" /\ lastCall.result = "ok" /\ lastCall.action = "invite"
    /\ lastCall.id = Len(volunteer_enrollments)
    /\ volunteer_enrollments[lastCall.id].status = "invited"
    /\ volunteer_enrollments[lastCall.id].initiated_by = Coordinator
    /\ volunteer_enrollments[lastCall.id].volunteer_id \in Volunteers

(***************************************************************************)
(* Properties of the match cache                                           *)
(***************************************************************************)
\* the pair has an enrollment in status enrolled
EnrolledPair(v, p) ==
    \E i \in RowIds : /\ volunteer_enrollments[i].volunteer_id = v
                      /\ volunteer_enrollments[i].project_id = p
                      /\ volunteer_enrollments[i].status = "enrolled"

\* the step is the INSERT of a refresh
Inserted == refresh.pc = "deleted" /\ refresh'.pc = "inserted"

Located(v) == users[v].latitude # NULL /\ users[v].longitude # NULL

\* a value a DECIMAL(5,4) score column of the cache can hold here
IsScore(x) == x = NaN \/ (x >= 0 /\ x <= One)

EffectiveLimit(limit) == IF limit = 0 THEN 20 ELSE limit

\* what each reader returns of a table: the table's rows of the project with
\* the volunteer's coordinates, the table's rows of the volunteer for the
\* projects that are active
ProjectView(table, p) ==
    { [volunteer_id |-> m.volunteer_id, skill_score |-> m.skill_score,
       distance_km |-> m.distance_km, combined_score |-> m.combined_score,
       latitude |-> users[m.volunteer_id].latitude,
       longitude |-> users[m.volunteer_id].longitude] :
      m \in { r \in table : r.project_id = p } }

VolunteerView(table, v) ==
    { [project_id |-> m.project_id, skill_score |-> m.skill_score,
       distance_km |-> m.distance_km, combined_score |-> m.combined_score] :
      m \in { r \in table : r.volunteer_id = v /\ projects[r.project_id].status = "active" } }

\* C6: the rows a refresh inserts contain no pair whose enrollment is in
\* status enrolled when the INSERT runs.
C6_RefreshExcludesEnrolled ==
    [][ Inserted => \A r \in refresh'.rows : ~ EnrolledPair(r.volunteer_id, r.project_id) ]_vars

\* C7: a read served from the cache returns the rows of the cache as the last
\* committed refresh published it, whole up to the limit, also while a
\* refresh has deleted or re-inserted rows, and both readers can run while a
\* refresh is under way.
C7_ReadersSeePublishedCache ==
    /\ (lastRead.source = "cache" /\ lastRead.op = "volunteers")
          => lastRead.rows \in Ranked(ProjectView(published.rows, lastRead.id),
                                      EffectiveLimit(lastRead.limit))
    /\ (lastRead.source = "cache" /\ lastRead.op = "projects")
          => lastRead.rows \in Ranked(VolunteerView(published.rows, lastRead.id),
                                      EffectiveLimit(lastRead.limit))
    /\ refresh.pc \in RefreshPcs
          => ENABLED DoFindMatchingVolunteers /\ ENABLED DoFindMatchingProjects

\* a read of a published, non-empty ranking ran after the DELETE of a refresh
C7_Witness ==
    /\ refresh.pc = "deleted"
    /\ lastRead.source = "cache" /\ lastRead.op = "volunteers"
    /\ Len(lastRead.rows) > 0
    /\ published.rows # {}

\* C8: after a refresh that failed, the committed cache is the cache the last
\* successful refresh published.
C8_FailedRefreshKeepsCache ==
    refresh.result = "error" => project_volunteer_matches = published.rows

\* a refresh failed after a successful refresh had published rows
C8_Witness ==
    /\ refresh.result = "error"
    /\ published.rows # {}
    /\ project_volunteer_matches = published.rows

\* C9: whenever a refresh has run its DELETE, the rows its INSERT selects are
\* defined whatever data is missing (each with a skill score and a combined
\* score that is a number of the column's range or NaN), and each is for a
\* project that is active and a volunteer whose latitude and longitude are
\* known.
C9_RowsNeedActiveAndLocated ==
    refresh.pc = "deleted"
       => \A r \in RefreshRows :
             /\ projects[r.project_id].status = "active"
             /\ Located(r.volunteer_id)
             /\ IsScore(r.skill_score)
             /\ IsScore(r.combined_score)

\* the INSERT of a refresh ran with a volunteer without location, without a
\* skill vector in the view, and wrote no row for that volunteer
C9_Witness ==
    /\ refresh.pc = "inserted"
    /\ \E v \in VolunteerUsers :
          /\ ~ Located(v)
          /\ volunteer_skill_vectors[v] = NullVector
          /\ ~ \E r \in refresh.rows : r.volunteer_id = v

\* C10: no ranking FindMatchingVolunteers returns, from the cache or from the
\* on-demand fallback, has a row of a volunteer without location.
C10_NoLocationNeverReturned ==
    lastRead.op = "volunteers"
       => \A i \in 1..Len(lastRead.rows) : Located(lastRead.rows[i].volunteer_id)

\* C11: every row of the cache has a stored distance_km of at most 500 and a
\* stored combined_score strictly above 0.1.
C11_StoredRowsPassCutoffs ==
    \A r \in project_volunteer_matches :
        /\ r.distance_km <= 500 * 100
        /\ Greater(r.combined_score, One \div 10)

\* the proximity and the weighted sum as the ranking rule states them
ExpectedProximity(distance) ==
    IF distance * 100 >= One THEN 0 ELSE One - distance * 100

ExpectedCombined(v, p) ==
    LET skill == SkillScore(v, p)
        prox  == ExpectedProximity(DistanceKm(v, p))
        same  == \E r \in RegionNames :
                    r \in projects[p].location_name /\ r \in users[v].location_name
    IN  IF skill = NaN THEN NaN
        ELSE IF same THEN (7 * skill + 3 * prox) \div 10
        ELSE (4 * skill + 6 * prox) \div 10

\* C12: whenever a refresh has run its DELETE, the combined score of every
\* pair that passes the eligibility filters and the radius is 0.7 skill + 0.3
\* proximity when both location names contain one region name, and 0.4 skill
\* + 0.6 proximity otherwise, a missing location name included.
C12_CombinedScoreWeights ==
    refresh.pc = "deleted"
       => \A v \in VolunteerUsers, p \in Projects :
             (Tier1(v, p) /\ DistanceKm(v, p) <= 500 * 100)
                => CombinedScore(v, p) = ExpectedCombined(v, p)

\* the INSERT of a refresh is about to score a pair of one region, and a pair
\* whose volunteer has coordinates but no location name
C12_Witness ==
    /\ refresh.pc = "deleted"
    /\ \E p \in Projects :
          /\ projects[p].status = "active"
          /\ projects[p].location_name = Toronto.location_name
          /\ \E v \in VolunteerUsers :
                users[v] \in {Vaughan, Unnamed} /\ CombinedScore(v, p) > One \div 2

CachedFor(p) == { m \in project_volunteer_matches : m.project_id = p }

\* the row of the response is the cache row m
IsCacheRow(row, m) ==
    /\ row.volunteer_id = m.volunteer_id
    /\ row.skill_score = m.skill_score
    /\ row.distance_km = m.distance_km
    /\ row.combined_score = m.combined_score

\* C14: a ranking of a project served from the cache has only cache rows of
\* that project, each at most once, as many as the limit allows (20 for limit
\* 0), in non-increasing combined_score order, and every cache row of the
\* project it leaves out has a combined_score not above any row it returns.
C14_RankedForProject ==
    (lastRead.op = "volunteers" /\ lastRead.source = "cache")
       => LET rows == lastRead.rows
              cached == CachedFor(lastRead.id)
          IN  /\ \A i \in 1..Len(rows) : \E m \in cached : IsCacheRow(rows[i], m)
              /\ \A i, j \in 1..Len(rows) :
                    i < j => /\ rows[i].volunteer_id # rows[j].volunteer_id
                             /\ ~ Greater(rows[j].combined_score, rows[i].combined_score)
              /\ Len(rows) = Min(EffectiveLimit(lastRead.limit), Cardinality(cached))
              /\ \A m \in cached :
                    (\A i \in 1..Len(rows) : rows[i].volunteer_id # m.volunteer_id)
                       => \A i \in 1..Len(rows) :
                             ~ Greater(m.combined_score, rows[i].combined_score)

\* a ranking with limit 1 returned the higher of two cache rows of the project
C14_Witness ==
    /\ lastRead.op = "volunteers" /\ lastRead.source = "cache" /\ lastRead.limit = 1
    /\ Len(lastRead.rows) = 1
    /\ \E m \in CachedFor(lastRead.id) :
          /\ m.volunteer_id # lastRead.rows[1].volunteer_id
          /\ m.combined_score < lastRead.rows[1].combined_score

\* C15: a ranking of a volunteer that is not the on-demand fallback has only
\* cache rows of that volunteer, for projects that are active now, in
\* non-increasing combined_score order.
C15_RankedForVolunteer ==
    (lastRead.op = "projects" /\ lastRead.source # "on_demand")
       => LET rows == lastRead.rows
          IN  /\ \A i \in 1..Len(rows) :
                    /\ rows[i].project_id \in Projects
                    /\ projects[rows[i].project_id].status = "active"
                    /\ \E m \in project_volunteer_matches :
                          /\ m.volunteer_id = lastRead.id
                          /\ m.project_id = rows[i].project_id
                          /\ m.combined_score = rows[i].combined_score
              /\ \A i, j \in 1..Len(rows) :
                    i < j => ~ Greater(rows[j].combined_score, rows[i].combined_score)

\* C16: an enrollment check answers "enrolled" exactly when the pair has a row
\* whose status is requested, invited or enrolled, and leaves every row as it
\* was.
C16_IsEnrolledExactlyOpenOrEnrolled ==
    [][ Returned("check")
          => /\ volunteer_enrollments' = volunteer_enrollments
             /\ (lastCall'.result = "enrolled")
                   <=> \E i \in RowIds :
                          /\ volunteer_enrollments[i].volunteer_id = lastCall'.volunteer
                          /\ volunteer_enrollments[i].project_id = lastCall'.project
                          /\ volunteer_enrollments[i].status
                                \in {"requested", "invited", "enrolled"}
             /\ lastCall'.result \in {"enrolled", "not_enrolled"} ]_vars

\* a check answered "not enrolled" for a pair whose row is rejected or withdrawn
C16_Witness ==
    /\ lastCall.op = "check" /\ lastCall.result = "not_enrolled"
    /\ \E i \in RowIds :
          /\ volunteer_enrollments[i].volunteer_id = lastCall.volunteer
          /\ volunteer_enrollments[i].project_id = lastCall.project
          /\ volunteer_enrollments[i].status \in {"tl_rejected", "v_rejected"}

\* C17: a transition on an id without a row fails with "not found", which is
\* not the invalid-transition error; an invalid-transition error carries the
\* row's current status and the requested action; neither changes a row.
C17_NotFoundApartFromInvalidTransition ==
    [][ Returned("update")
          => /\ ( lastCall'.id \notin RowIds /\ lastCall'.action \in {"accept", "reject", "withdraw"} )
                   => /\ lastCall'.result = "not_found"
                      /\ volunteer_enrollments' = volunteer_enrollments
             /\ lastCall'.result = "invalid_transition"
                   => /\ lastCall'.id \in RowIds
                      /\ lastCall'.current = volunteer_enrollments[lastCall'.id].status
                      /\ lastCall'.current \in Statuses
                      /\ lastCall'.action \in {"accept", "reject", "withdraw"}
                      /\ \A t \in TransitionTable :
                            <<t[1], t[2]>> # <<lastCall'.current, lastCall'.action>>
                      /\ volunteer_enrollments' = volunteer_enrollments ]_vars

\* an accept on an id without a row failed as not found while the table holds
\* an open enrollment under another id
C17_Witness ==
    /\ lastCall.op = "update" /\ lastCall.result = "not_found"
    /\ lastCall.action = "accept" /\ lastCall.id \notin RowIds
    /\ \E i \in RowIds : volunteer_enrollments[i].status \in {"requested", "invited"}

\* C18: an action string outside the recognised ones is rejected as an invalid
\* action, when initiating and when transitioning, and no row is created or
\* changed and no UPDATE is left pending.
C18_UnknownActionRejectedFirst ==
    [][ /\ ( Returned("create") /\ lastCall'.action \notin {"request", "invite"} )
              => /\ lastCall'.result = "invalid_action"
                 /\ volunteer_enrollments' = volunteer_enrollments
        /\ ( Returned("update") /\ lastCall'.action \notin {"accept", "reject", "withdraw"} )
              => /\ lastCall'.result = "invalid_action"
                 /\ volunteer_enrollments' = volunteer_enrollments
                 /\ calls' = calls ]_vars

\* an unrecognised action on an existing, still open enrollment was rejected
C18_Witness ==
    /\ lastCall.op = "update" /\ lastCall.result = "invalid_action"
    /\ lastCall.action \notin {"accept", "reject", "withdraw"}
    /\ lastCall.id \in RowIds
    /\ volunteer_enrollments[lastCall.id].status \in {"requested", "invited"}

\* C20: a transition succeeds only when sent by the actor the table names:
\* the coordinator for accept and reject on a requested row, the volunteer of
\* the row for withdraw on a requested row and for accept and reject on an
\* invited row; so no row becomes enrolled by a request of its initiator.
C20_OnlyNamedActorTransitions ==
    [][ ( Returned("update") /\ lastCall'.result = "ok" )
          => LET row == volunteer_enrollments[lastCall'.id]
                 seeker == row.status = "invited" \/ lastCall'.action = "withdraw"
             IN  /\ lastCall'.user = IF seeker THEN row.volunteer_id ELSE Coordinator
                 /\ volunteer_enrollments'[lastCall'.id].status = "enrolled"
                       => lastCall'.user # row.initiated_by ]_vars

\* C19: a refresh that no other refresh overlapped leaves, when it commits,
\* exactly the rows it selected as the visible cache; only overlapping
\* refreshes can leave something else (C19_Witness: they do).
C19_OnlyOverlapCorruptsCache ==
    [][ \A t \in Sessions :
          ( sessions[t].pc = "inserted" /\ sessions'[t].pc = "idle"
            /\ ~ sessions[t].overlapped )
             => /\ sessions'[t].result = "ok"
                /\ project_volunteer_matches' = sessions[t].rows
                /\ published'.match_count = Cardinality(project_volunteer_matches') ]_vars

\* both sessions have ended, the one that overlapped the other returned
\* normally, and the visible cache is neither the rows it selected nor the
\* rows a refresh selects from the data as they are now
C19_Witness ==
    /\ \A t \in Sessions : sessions[t].pc = "idle"
    /\ \E t \in Sessions :
          /\ sessions[t].result = "ok" /\ sessions[t].overlapped
          /\ sessions[t].match_count = 0 /\ sessions[t].rows = {}
          /\ sessions[Other(t)].result = "ok"
          /\ project_volunteer_matches # sessions[t].rows
          /\ published.match_count = 0
    /\ project_volunteer_matches # RefreshRows

\* C21: a skill vector of dimension D has positions 1..D; a position no skill
\* on file maps to holds 0, any other holds the greatest value among the
\* skills mapped to it (one of their values, not their sum); no skills give
\* the zero vector; both builders put a skill at the same position.
C21_VectorSlotsHoldMaximum ==
    lastVector.fn # "none" =>
        LET D == lastVector.dimension
            vec == lastVector.vector
            values == IF lastVector.fn = "volunteer" THEN volunteer_skills[lastVector.id]
                      ELSE project_skills[lastVector.id]
            onFile == { s \in Skills : values[s] # NULL }
            at(i) == { s \in onFile : volunteer_skill_position(s, D) = i }
        IN  /\ DOMAIN vec = 1..D
            /\ \A s \in Skills :
                  /\ volunteer_skill_position(s, D) = project_skill_position(s, D)
                  /\ volunteer_skill_position(s, D) \in 1..D
            /\ \A i \in 1..D :
                  IF at(i) = {} THEN vec[i] = 0
                  ELSE /\ \E s \in at(i) : vec[i] = values[s]
                       /\ \A s \in at(i) : vec[i] >= values[s]
            /\ onFile = {} => \A i \in 1..D : vec[i] = 0

\* a vector was built where two skills with different positive values share
\* a position
C21_Witness ==
    /\ lastVector.fn = "project"
    /\ \E s, t \in Skills :
          /\ s # t
          /\ project_skill_position(s, lastVector.dimension)
                = project_skill_position(t, lastVector.dimension)
          /\ project_skills[lastVector.id][s] = 4
          /\ project_skills[lastVector.id][t] = 10
          /\ lastVector.vector[project_skill_position(s, lastVector.dimension)] = 10

\* C22: the skill_score of every stored match is a number in [0, 1], and it
\* is 0 when the volunteer has no precomputed vector or when the volunteer's
\* or the project's vector has zero magnitude.
C22_SkillScoreIsNumberInUnitRange ==
    \A r \in project_volunteer_matches :
        /\ r.skill_score # NaN
        /\ r.skill_score >= 0 /\ r.skill_score <= One

\* C23: when a refresh commits, the skill_score of every row it publishes is
\* the similarity of the vectors built from the volunteer's claims and the
\* project's demands on file at that refresh (0 for a zero magnitude),
\* whatever the age of the precomputed volunteer vectors.
C23_SkillScoreFromClaimsOnFile ==
    refresh.pc = "deleted" =>
        \A r \in RefreshRows :
            LET sim == CosineSimilarity(get_volunteer_skill_vector(r.volunteer_id),
                                        get_project_skill_vector(r.project_id))
            IN  r.skill_score = Decimal4(IF sim = NaN THEN 0 ELSE sim)

\* C24: a ranking for a project is computed on demand whenever the cache is
\* empty (or unavailable), and otherwise consists of cached rows only; the
\* on-demand rows blend 0.7 skill and 0.3 proximity whatever the regions.
C24_FallbackWhenCacheEmpty ==
    lastRead.op = "volunteers" =>
        /\ project_volunteer_matches = {} => lastRead.source = "on_demand"
        /\ lastRead.source = "cache" =>
              \A i \in 1..Len(lastRead.rows) :
                  \E m \in CachedFor(lastRead.id) : IsCacheRow(lastRead.rows[i], m)
        /\ lastRead.source = "on_demand" =>
              \A i \in 1..Len(lastRead.rows) :
                  LET row == lastRead.rows[i]
                      prox == OnDemandProximity(OnDemandDistance(row.volunteer_id, lastRead.id),
                                                DefaultMaxDistanceKm)
                  IN  row.combined_score = IF row.skill_score = NaN THEN NaN
                                           ELSE (7 * row.skill_score + 3 * prox) \div 10

\* C25: the INSERT of a refresh leaves in the refresh's table exactly the rows
\* that pass its filters, one per (project, volunteer) pair and none of an
\* earlier refresh, and counts them; the commit makes exactly these rows the
\* cache and returns their number.
C25_RefreshReplacesCacheWholesale ==
    [][ /\ (refresh.pc = "deleted" /\ refresh'.pc = "inserted")
            => /\ refresh'.rows = RefreshRows
               /\ \A r1, r2 \in refresh'.rows :
                     (r1.project_id = r2.project_id /\ r1.volunteer_id = r2.volunteer_id)
                        => r1 = r2
               /\ refresh'.match_count = Cardinality(refresh'.rows)
        /\ (refresh.pc = "inserted" /\ refresh'.result = "ok")
            => /\ project_volunteer_matches' = refresh.rows
               /\ published'.match_count = Cardinality(project_volunteer_matches') ]_vars

\* a refresh is about to commit rows while the cache holds a row of an earlier
\* refresh that is not among them
C25_Witness ==
    /\ refresh.pc = "inserted"
    /\ refresh.rows # {}
    /\ \E m \in project_volunteer_matches : m \notin refresh.rows

\* C26: the rows of the cache change only in the step that commits a
\* refresh: no enrollment handler, skill, location or project status update
\* changes them; and no step of a refresh changes the enrollments.
C26_CacheChangesOnlyByRefresh ==
    [][ /\ project_volunteer_matches' # project_volunteer_matches
            => (refresh.pc = "inserted" /\ refresh'.result = "ok")
        /\ refresh' # refresh
            => volunteer_enrollments' = volunteer_enrollments ]_vars

\* after a refresh, the project was taken out of the active status and an
\* enrollment was accepted; the cache still holds a row of the project
C26_Witness ==
    /\ refresh.pc = "idle"
    /\ \E m \in project_volunteer_matches : projects[m.project_id].status # "active"
    /\ \E i \in 1..Len(volunteer_enrollments) : volunteer_enrollments[i].status = "enrolled"
    /\ lastCall.op = "update" /\ lastCall.result = "ok"

\* C27: no step removes an enrollment or changes the volunteer, the project
\* or the initiator of one; a transition that succeeds changes at most the
\* status and the approval mark of the row it names and no other row.
C27_TransitionChangesOnlyItsRow ==
    [][ /\ Len(volunteer_enrollments') >= Len(volunteer_enrollments)
        /\ \A i \in 1..Len(volunteer_enrollments) :
              /\ volunteer_enrollments'[i].volunteer_id = volunteer_enrollments[i].volunteer_id
              /\ volunteer_enrollments'[i].project_id = volunteer_enrollments[i].project_id
              /\ volunteer_enrollments'[i].initiated_by = volunteer_enrollments[i].initiated_by
              /\ volunteer_enrollments'[i] # volunteer_enrollments[i]
                    => /\ lastCall'.op = "update" /\ lastCall'.result = "ok"
                       /\ lastCall'.id = i ]_vars

\* a transition of one row succeeded while the table holds another row that
\* a volunteer requested and an accepted row initiated by the coordinator
C27_Witness ==
    /\ lastCall.op = "update" /\ lastCall.result = "ok"
    /\ Len(volunteer_enrollments) >= 2
    /\ \E i, j \in 1..Len(volunteer_enrollments) :
          /\ i = lastCall.id /\ j # i
          /\ volunteer_enrollments[i].status = "enrolled"
          /\ volunteer_enrollments[i].initiated_by = Coordinator
          /\ volunteer_enrollments[j].status = "requested"

\* C28: a skill update of a volunteer with a score outside [0, 1], and a
\* replacement of a project's demands with a weight outside [0, 1], returns
\* an error and leaves the stored claims and demands as they were, also when
\* valid entries precede the invalid one.
C28_OutOfRangeRequestChangesNothing ==
    [][ ( /\ lastCall'.op \in {"volunteer_skills", "project_skills"}
          /\ lastCall'.action \in {"out_of_range_first", "out_of_range_later"} )
        => /\ lastCall'.result = "error"
           /\ volunteer_skills' = volunteer_skills
           /\ project_skills' = project_skills ]_vars

\* a replacement of the demands of a project that has demands failed on its
\* second entry, and the demands are still on file
C28_Witness ==
    /\ lastCall.op = "project_skills"
    /\ lastCall.action = "out_of_range_later"
    /\ lastCall.result = "error"
    /\ \E s \in Skills : project_skills[lastCall.project][s] # NULL

\* C29: an enrollment has an approved timestamp exactly when its status is
\* enrolled, whatever the interleaving of the transition calls on it.
C29_ApprovedExactlyWhenEnrolled ==
    \A i \in 1..Len(volunteer_enrollments) :
        volunteer_enrollments[i].approved_at <=> volunteer_enrollments[i].status = "enrolled"

\* C30: a request to join made for a pair that IsVolunteerEnrolled reports as
\* not enrolled succeeds, and a create call that returns a conflict was made
\* for a pair that is enrolled or has a requested or invited enrollment.
C30_NotEnrolledCanRequest ==
    [][ Returned("create") =>
          LET enrolled == IsVolunteerEnrolled(volunteer_enrollments, lastCall'.volunteer,
                                              lastCall'.project)
          IN  /\ (lastCall'.action = "request" /\ ~ enrolled) => lastCall'.result = "ok"
              /\ lastCall'.result = "conflict" => enrolled ]_vars

====
